---- MODULE Spec2Model ----
(***************************************************************************)
(* Bearer token authentication / authorization of megaphone (src/auth.rs). *)
(*                                                                         *)
(* A configuration holds two tables, broadcaster_auth and reader_auth,     *)
(* each mapping a user id to an array of tokens.  from_config loads both   *)
(* into a BearerTokenAuthenticator {users: token -> user id,               *)
(* groups: user id -> Group}; afterwards requests are authenticated from   *)
(* their Authorization header and authorized per role.                     *)
(*                                                                         *)
(* Strings whose characters matter (header values, tokens) are sequences   *)
(* of one-character strings; user ids are only ever compared for equality  *)
(* and are plain strings.                                                  *)
(***************************************************************************)
EXTENDS Naturals, Sequences, FiniteSets, TLC

VARIABLES config, todo, pc, remaining, user_id, idx, authenticator,
          error, managed, request, response

vars == <<config, todo, pc, remaining, user_id, idx, authenticator,
          error, managed, request, response>>

(***************************************************************************)
(* Bounds of the model                                                     *)
(***************************************************************************)
\* total number of token array elements in one configuration
MaxConfigTokens == 3
\* length of the part of a request header that follows the first space
MaxHeaderToken == 2

(***************************************************************************)
(* Values                                                                  *)
(***************************************************************************)
Group == {"Broadcaster", "Reader"}

config_name(group) ==
    IF group = "Broadcaster" THEN "broadcaster_auth" ELSE "reader_auth"

UserIds == {"foo", "baz"}

\* the token strings a configuration may list: two that differ in letter case
\* only, and one that is another one followed by a space
ConfigTokens == {<<"q">>, <<"Q">>, <<"q", " ">>}

\* a toml value inside a token array: a string, or something that is no string
StrValue(s) == [is_str |-> TRUE, str |-> s]
NonStrValue == [is_str |-> FALSE, str |-> <<>>]
Elements == {StrValue(t) : t \in ConfigTokens} \cup {NonStrValue}

\* a toml value of a table entry: an array, or something that is no array
ArrayValue(elems) == [is_array |-> TRUE, elems |-> elems]
NonArrayValue == [is_array |-> FALSE, elems |-> <<>>]

\* a table of the configuration, or its absence (undefined or not a table)
Table(entries) == [is_table |-> TRUE, entries |-> entries]
NoTable == [is_table |-> FALSE, entries |-> <<>>]

(***************************************************************************)
(* HashMap operations                                                      *)
(***************************************************************************)
EmptyMap == <<>>

\* HashMap::get(k): Some(v) or None
Get(map, k) ==
    IF k \in DOMAIN map THEN [some |-> TRUE, v |-> map[k]]
                        ELSE [some |-> FALSE, v |-> ""]

\* HashMap::insert(k, v): the entry of k is set (an old one replaced)
Insert(map, k, v) ==
    [x \in (DOMAIN map) \cup {k} |-> IF x = k THEN v ELSE map[x]]

(***************************************************************************)
(* The configurations: every pair of tables over UserIds whose arrays      *)
(* hold at most MaxConfigTokens elements altogether                        *)
(***************************************************************************)
SeqsUpTo(S, n) == UNION {[1..k -> S] : k \in 0..n}

ValuesUpTo(n) ==
    {NonArrayValue} \cup {ArrayValue(e) : e \in SeqsUpTo(Elements, n)}

RECURSIVE EntriesUpTo(_, _)
EntriesUpTo(users, n) ==
    IF users = {} THEN {EmptyMap}
    ELSE LET u == CHOOSE x \in users : TRUE
             rest == users \ {u}
         IN  EntriesUpTo(rest, n)
             \cup UNION {{Insert(e, u, v) : e \in EntriesUpTo(rest, n - Len(v.elems))}
                         : v \in ValuesUpTo(n)}

RECURSIVE EntriesSize(_)
EntriesSize(entries) ==
    IF DOMAIN entries = {} THEN 0
    ELSE LET u == CHOOSE x \in DOMAIN entries : TRUE
         IN  Len(entries[u].elems)
             + EntriesSize([x \in (DOMAIN entries) \ {u} |-> entries[x]])

TablesUpTo(n) == {NoTable} \cup {Table(e) : e \in EntriesUpTo(UserIds, n)}

TablesOfSize == [n \in 0..MaxConfigTokens |-> TablesUpTo(n)]

\* config is one of the configurations
IsConfig(cfg) ==
    \E b \in TablesOfSize[MaxConfigTokens] :
      \E r \in TablesOfSize[MaxConfigTokens - EntriesSize(b.entries)] :
        cfg = [broadcaster_auth |-> b, reader_auth |-> r]

(***************************************************************************)
(* Request headers                                                         *)
(***************************************************************************)
Bearer == <<"B", "e", "a", "r", "e", "r">>
bearer == <<"b", "e", "a", "r", "e", "r">>
BEARER == <<"B", "E", "A", "R", "E", "R">>

\* what a header value may start with
Schemes == {Bearer,
            bearer,
            BEARER,
            <<"B", "a", "s", "i", "c">>,
            <<"b", "E", "a", "R", "e", "r">>,
            <<"B", "e", "a", "r">>,
            <<>>}

\* what may follow the first space of a header value
HeaderTokens == SeqsUpTo({"q", "Q", " "}, MaxHeaderToken)

HeaderValues ==
    Schemes \cup {s \o <<" ">> \o t : s \in Schemes, t \in HeaderTokens}

\* HeaderMap::get_one("Authorization"): Some(value) or None
SomeHeader(value) == [some |-> TRUE, v |-> value]
NoHeader == [some |-> FALSE, v |-> <<>>]
Headers == {NoHeader} \cup {SomeHeader(h) : h \in HeaderValues}

\* Request::get_param::<String>(0): the first path segment, or an error
SomeParam(p) == [ok |-> TRUE, v |-> p]
NoParam == [ok |-> FALSE, v |-> ""]
Params == {NoParam} \cup {SomeParam(p) : p \in UserIds \cup {"mega"}}

(***************************************************************************)
(* Errors and results                                                      *)
(***************************************************************************)
\* the format_err! messages of from_config: which message, and what it names
NoError == [kind |-> "none", name |-> "", user_id |-> "", dupe |-> "", token |-> <<>>]
UndefinedTableError(name) ==
    [kind |-> "Undefined or invalid ROCKET_", name |-> name,
     user_id |-> "", dupe |-> "", token |-> <<>>]
DupeUserError(name, user, dupe) ==
    [kind |-> "dupe user in", name |-> name,
     user_id |-> user, dupe |-> config_name(dupe), token |-> <<>>]
InvalidArrayError(name, user) ==
    [kind |-> "Invalid token array for", name |-> name,
     user_id |-> user, dupe |-> "", token |-> <<>>]
InvalidTokenError(name, user) ==
    [kind |-> "Invalid token for", name |-> name,
     user_id |-> user, dupe |-> "", token |-> <<>>]
DupeTokenError(name, user, dupe, token) ==
    [kind |-> "dupe in", name |-> name,
     user_id |-> user, dupe |-> dupe, token |-> token]

\* HandlerResult<(UserId, Group)>
OkUser(id, group) == [ok |-> TRUE, id |-> id, group |-> group, err |-> "none"]
ErrUser(kind) == [ok |-> FALSE, id |-> "", group |-> "", err |-> kind]

\* HandlerResult<Broadcaster> and HandlerResult<Reader>: the principal made
\* by Broadcaster::new(id) or Reader::new(id), or the error
OkPrincipal(model, id) == [ok |-> TRUE, model |-> model, id |-> id, err |-> "none"]
ErrPrincipal(kind) == [ok |-> FALSE, model |-> "", id |-> "", err |-> kind]

\* State<BearerTokenAuthenticator>: the registry rocket manages, if any
Managed(a) == [available |-> TRUE, users |-> a.users, groups |-> a.groups]
Unmanaged == [available |-> FALSE, users |-> EmptyMap, groups |-> EmptyMap]

(***************************************************************************)
(* Registry construction: the steps of from_config                         *)
(***************************************************************************)
\* get_table as if a missing table were an empty one
get_table_lenient(cfg, name) == [ok |-> TRUE, v |-> cfg[name].entries]

\* Config::get_table(name): the table, or an error when it is undefined or
\* not a table
get_table(cfg, name) ==
    IF cfg[name].is_table THEN [ok |-> TRUE, v |-> cfg[name].entries]
                          ELSE [ok |-> FALSE, v |-> EmptyMap]

\* Value::as_array
as_array(value) ==
    IF value.is_array THEN [some |-> TRUE, v |-> value.elems]
                      ELSE [some |-> FALSE, v |-> <<>>]

\* Value::as_str
as_str(element) ==
    IF element.is_str THEN [some |-> TRUE, v |-> element.str]
                      ELSE [some |-> FALSE, v |-> <<>>]

\* the lookup of line 64 as if it never found the user id
dupe_user_never(groups, user) == [some |-> FALSE, v |-> ""]

\* self.groups.get(user_id)
dupe_user(groups, user) == Get(groups, user)

\* the insertion of line 72 left out
insert_group_skipped(groups, user, group) == groups

\* self.groups.insert(user_id.to_string(), group)
insert_group(groups, user, group) == Insert(groups, user, group)

\* the lookup of line 91 as if it never found the token
dupe_token_never(users, token) == [some |-> FALSE, v |-> ""]

\* self.users.get(token)
dupe_token(users, token) == Get(users, token)

\* the insertion of line 100 left out
insert_user_skipped(users, token, user) == users

\* self.users.insert(token.to_string(), user_id.to_string())
insert_user(users, token, user) == Insert(users, token, user)

\* the order in which from_config loads the groups
GroupOrder == <<"Broadcaster", "Reader">>

\* the group being loaded and its configuration name
group == Head(todo)
name == config_name(group)

\* the token array of the entry being loaded
tokens == as_array(config[name].entries[user_id]).v

\* an `Err(..)?`: construction is abandoned with the error
Fail(e) ==
    /\ pc' = "failed"
    /\ error' = e

\* load_auth_from_config is entered for the next group: its table is fetched
load_auth_from_config ==
    /\ pc = "from_config"
    /\ todo # <<>>
    /\ LET auth_config == get_table(config, name)
       IN  IF ~auth_config.ok
           THEN /\ Fail(UndefinedTableError(name))
                /\ UNCHANGED remaining
           ELSE /\ pc' = "entries"
                /\ remaining' = DOMAIN auth_config.v
                /\ UNCHANGED error
    /\ UNCHANGED <<config, todo, user_id, idx, authenticator, managed,
                   request, response>>

\* one iteration of `for (user_id, tokens_val) in auth_config`, up to the
\* call of load_tokens; the entries come in any order
load_entry ==
    /\ pc = "entries"
    /\ \E user \in remaining :
         LET dupe == dupe_user(authenticator.groups, user)
             registered == [authenticator EXCEPT
                              !.groups = insert_group(@, user, group)]
         IN  /\ remaining' = remaining \ {user}
             /\ user_id' = user
             /\ IF dupe.some
                THEN /\ Fail(DupeUserError(name, user, dupe.v))
                     /\ UNCHANGED <<authenticator, idx>>
                ELSE /\ authenticator' = registered
                     /\ IF ~as_array(config[name].entries[user]).some
                        THEN /\ Fail(InvalidArrayError(name, user))
                             /\ UNCHANGED idx
                        ELSE /\ pc' = "tokens"
                             /\ idx' = 1
                             /\ UNCHANGED error
    /\ UNCHANGED <<config, todo, managed, request, response>>

\* one iteration of `for element in tokens` in load_tokens
load_token ==
    /\ pc = "tokens"
    /\ idx <= Len(tokens)
    /\ LET token == as_str(tokens[idx])
           dupe == dupe_token(authenticator.users, token.v)
       IN  IF ~token.some
           THEN /\ Fail(InvalidTokenError(name, user_id))
                /\ UNCHANGED <<authenticator, idx>>
           ELSE IF dupe.some
           THEN /\ Fail(DupeTokenError(name, user_id, dupe.v, token.v))
                /\ UNCHANGED <<authenticator, idx>>
           ELSE /\ authenticator' = [authenticator EXCEPT
                                       !.users = insert_user(@, token.v, user_id)]
                /\ idx' = idx + 1
                /\ UNCHANGED <<pc, error>>
    /\ UNCHANGED <<config, todo, remaining, user_id, managed, request, response>>

\* load_tokens returns Ok(()): on to the next entry of the table
load_tokens_ok ==
    /\ pc = "tokens"
    /\ idx > Len(tokens)
    /\ pc' = "entries"
    /\ UNCHANGED <<config, todo, remaining, user_id, idx, authenticator,
                   error, managed, request, response>>

\* load_auth_from_config returns Ok(()): on to the next group
load_auth_from_config_ok ==
    /\ pc = "entries"
    /\ remaining = {}
    /\ todo' = Tail(todo)
    /\ pc' = "from_config"
    /\ UNCHANGED <<config, remaining, user_id, idx, authenticator,
                   error, managed, request, response>>

\* from_config returns Ok(authenticator): the registry is handed to rocket,
\* and the iteration state of the loops is gone with their scopes
from_config_ok ==
    /\ pc = "from_config"
    /\ todo = <<>>
    /\ managed' = Managed(authenticator)
    /\ pc' = "serving"
    /\ remaining' = {}
    /\ user_id' = ""
    /\ idx' = 0
    /\ UNCHANGED <<config, todo, authenticator, error, request, response>>

(***************************************************************************)
(* Authentication and authorization of a request                           *)
(***************************************************************************)
\* char::to_lowercase on the letters that occur in header values
LowerChar(c) ==
    CASE c = "B" -> "b"
      [] c = "E" -> "e"
      [] c = "A" -> "a"
      [] c = "R" -> "r"
      [] c = "Q" -> "q"
      [] OTHER -> c

\* to_lowercase left out: the scheme compared as it was sent
to_lowercase_identity(s) == s

\* str::to_lowercase
to_lowercase(s) == [i \in 1..Len(s) |-> LowerChar(s[i])]

\* the position of the first ' ' of s, 0 when it has none
FirstSpace(s) ==
    IF \E i \in 1..Len(s) : s[i] = " "
    THEN CHOOSE i \in 1..Len(s) :
           /\ s[i] = " "
           /\ \A j \in 1..(i - 1) : s[j] # " "
    ELSE 0

\* s without its trailing spaces
RECURSIVE TrimEnd(_)
TrimEnd(s) ==
    IF s # <<>> /\ s[Len(s)] = " " THEN TrimEnd(SubSeq(s, 1, Len(s) - 1)) ELSE s

\* splitn(2, ' ') with the second part trimmed
splitn2_trimmed(s) ==
    LET i == FirstSpace(s)
    IN  IF i = 0 THEN <<s>>
        ELSE <<SubSeq(s, 1, i - 1), TrimEnd(SubSeq(s, i + 1, Len(s)))>>

\* s.splitn(2, ' ').collect(): s itself when it has no space, otherwise what
\* precedes its first space and everything that follows it
splitn2(s) ==
    LET i == FirstSpace(s)
    IN  IF i = 0 THEN <<s>>
        ELSE <<SubSeq(s, 1, i - 1), SubSeq(s, i + 1, Len(s))>>

\* authenticated_user without the comparison of the scheme
authenticated_user_any_scheme(self, headers) ==
    IF ~headers.some THEN ErrUser("MissingAuth")
    ELSE LET parts == FirstSpace(headers.v)
         IN  IF parts = 0
             THEN ErrUser("InvalidAuth")
             ELSE LET token == SubSeq(headers.v, parts + 1, Len(headers.v))
                  IN  IF token \notin DOMAIN self.users THEN ErrUser("InvalidAuth")
                      ELSE IF self.users[token] \notin DOMAIN self.groups
                      THEN ErrUser("InternalError")
                      ELSE OkUser(self.users[token], self.groups[self.users[token]])

\* BearerTokenAuthenticator::authenticated_user(&self, headers)
BearerTokenAuthenticator_authenticated_user(self, headers) ==
    IF ~headers.some THEN ErrUser("MissingAuth")
    ELSE LET parts == splitn2(headers.v)
         IN  IF Len(parts) # 2 \/ to_lowercase(parts[1]) # bearer
             THEN ErrUser("InvalidAuth")
             ELSE LET user == Get(self.users, parts[2])
                  IN  IF ~user.some THEN ErrUser("InvalidAuth")
                      ELSE LET grp == Get(self.groups, user.v)
                           IN  IF ~grp.some THEN ErrUser("InternalError")
                               ELSE OkUser(user.v, grp.v)

\* fn authenticated_user(request): the managed registry authenticates the
\* request's headers; without a managed registry the guard fails
authenticated_user(state, headers) ==
    IF ~state.available THEN ErrUser("InternalError")
    ELSE BearerTokenAuthenticator_authenticated_user(state, headers)

\* authorized_broadcaster without the comparison of the namespace
authorized_broadcaster_any_namespace(state, headers, param) ==
    LET user == IF ~state.available THEN ErrUser("InternalError")
                ELSE BearerTokenAuthenticator_authenticated_user(state, headers)
    IN  IF ~user.ok THEN ErrPrincipal(user.err)
        ELSE IF ~param.ok THEN ErrPrincipal("RocketError")
        ELSE IF user.group = "Broadcaster"
             THEN OkPrincipal("Broadcaster", user.id)
             ELSE ErrPrincipal("Unauthorized")

\* fn authorized_broadcaster(request)
authorized_broadcaster(state, headers, param) ==
    LET user == authenticated_user(state, headers)
    IN  IF ~user.ok THEN ErrPrincipal(user.err)
        ELSE IF ~param.ok THEN ErrPrincipal("RocketError")
        ELSE IF user.group = "Broadcaster" /\ user.id = param.v
             THEN OkPrincipal("Broadcaster", user.id)
             ELSE ErrPrincipal("Unauthorized")

\* authorized_reader without the comparison of the group
authorized_reader_any_group(state, headers) ==
    LET user == IF ~state.available THEN ErrUser("InternalError")
                ELSE BearerTokenAuthenticator_authenticated_user(state, headers)
    IN  IF ~user.ok THEN ErrPrincipal(user.err)
        ELSE OkPrincipal("Reader", user.id)

\* fn authorized_reader(request)
authorized_reader(state, headers) ==
    LET user == authenticated_user(state, headers)
    IN  IF ~user.ok THEN ErrPrincipal(user.err)
        ELSE IF user.group = "Reader"
             THEN OkPrincipal("Reader", user.id)
             ELSE ErrPrincipal("Unauthorized")

NoRequest == [guard |-> "none", headers |-> NoHeader, param |-> NoParam]
NoResponse == ErrPrincipal("none")

\* a request to a route guarded by authorized_broadcaster
broadcaster_request ==
    /\ pc = "serving"
    /\ request = NoRequest
    /\ \E headers \in Headers, param \in Params :
         /\ request' = [guard |-> "authorized_broadcaster",
                        headers |-> headers, param |-> param]
         /\ response' = authorized_broadcaster(managed, headers, param)
    /\ UNCHANGED <<config, todo, pc, remaining, user_id, idx, authenticator,
                   error, managed>>

\* a request to a route guarded by authorized_reader
reader_request ==
    /\ pc = "serving"
    /\ request = NoRequest
    /\ \E headers \in Headers, param \in Params :
         /\ request' = [guard |-> "authorized_reader",
                        headers |-> headers, param |-> param]
         /\ response' = authorized_reader(managed, headers)
    /\ UNCHANGED <<config, todo, pc, remaining, user_id, idx, authenticator,
                   error, managed>>

\* the guard has returned and the request is over: the next one starts from
\* scratch, with nothing kept from this one
request_done ==
    /\ pc = "serving"
    /\ request # NoRequest
    /\ request' = NoRequest
    /\ response' = NoResponse
    /\ UNCHANGED <<config, todo, pc, remaining, user_id, idx, authenticator,
                   error, managed>>

(***************************************************************************)
(* Specifications                                                          *)
(***************************************************************************)
\* from_config has made the empty authenticator and loaded nothing yet
InitBuild ==
    /\ IsConfig(config)
    /\ pc = "from_config"
    /\ remaining = {}
    /\ user_id = ""
    /\ idx = 0
    /\ authenticator = [users |-> EmptyMap, groups |-> EmptyMap]
    /\ error = NoError
    /\ managed = Unmanaged
    /\ request = NoRequest
    /\ response = NoResponse

Init ==
    /\ InitBuild
    /\ todo = GroupOrder

Next ==
    \/ load_auth_from_config
    \/ load_entry
    \/ load_token
    \/ load_tokens_ok
    \/ load_auth_from_config_ok
    \/ from_config_ok
    \/ broadcaster_request
    \/ reader_request
    \/ request_done

Spec == Init /\ [][Next]_vars

\* the same program with the two groups loaded in either order
InitAnyOrder ==
    /\ InitBuild
    /\ todo \in {<<"Broadcaster", "Reader">>, <<"Reader", "Broadcaster">>}

SpecOrder == InitAnyOrder /\ [][Next]_vars

(***************************************************************************)
(* What a configuration says, read off the configuration alone             *)
(***************************************************************************)
\* the user ids that are keys of the table of a group
ConfigUsers(g) == DOMAIN config[config_name(g)].entries

\* the places <<group, user id, index>> of the configuration that hold a
\* token string
TokenPlaces ==
    {<<g, u, i>> \in Group \X UserIds \X (1..(MaxConfigTokens + 1)) :
        /\ u \in ConfigUsers(g)
        /\ config[config_name(g)].entries[u].is_array
        /\ i <= Len(config[config_name(g)].entries[u].elems)
        /\ config[config_name(g)].entries[u].elems[i].is_str}

TokenAt(p) == config[config_name(p[1])].entries[p[2]].elems[p[3]].str

TablesPresent == \A g \in Group : config[config_name(g)].is_table

\* both tables are present, every entry is an array, every element a string
WellFormed ==
    /\ TablesPresent
    /\ \A g \in Group : \A u \in ConfigUsers(g) :
         /\ config[config_name(g)].entries[u].is_array
         /\ \A i \in 1..Len(config[config_name(g)].entries[u].elems) :
              config[config_name(g)].entries[u].elems[i].is_str

DupeUserInConfig == ConfigUsers("Broadcaster") \cap ConfigUsers("Reader") # {}

DupeTokenInConfig ==
    \E p1, p2 \in TokenPlaces : p1 # p2 /\ TokenAt(p1) = TokenAt(p2)

AllDistinct == WellFormed /\ ~DupeUserInConfig /\ ~DupeTokenInConfig

Building == pc \in {"from_config", "entries", "tokens"}

BuildStep ==
    \/ load_auth_from_config
    \/ load_entry
    \/ load_token
    \/ load_tokens_ok
    \/ load_auth_from_config_ok
    \/ from_config_ok

\* "scheme token" as a header
Header(scheme, token) == SomeHeader(scheme \o <<" ">> \o token)

(***************************************************************************)
(* Claims                                                                  *)
(***************************************************************************)
\* C1: when both tables are present and well-formed and all user ids and
\* all tokens of the configuration are pairwise distinct, from_config does
\* not fail and does not get stuck, and in the registry it returns the
\* header "Bearer t" authenticates as exactly (u, r) for every token t the
\* configuration lists for user u of role r.
C1_DistinctConfigAuthenticates ==
    AllDistinct =>
        /\ pc # "failed"
        /\ Building => ENABLED BuildStep
        /\ pc = "serving" =>
             /\ managed.available
             /\ \A p \in TokenPlaces :
                  BearerTokenAuthenticator_authenticated_user(
                      managed, Header(Bearer, TokenAt(p))) = OkUser(p[2], p[1])

\* a registry built from a configuration with a broadcaster and a reader,
\* each with a token, has just served a request bearing a configured token
C1_Witness ==
    /\ AllDistinct
    /\ pc = "serving"
    /\ ConfigUsers("Broadcaster") # {}
    /\ ConfigUsers("Reader") # {}
    /\ \E p1, p2 \in TokenPlaces : p1[1] # p2[1]
    /\ \E p \in TokenPlaces :
         /\ request.headers = Header(Bearer, TokenAt(p))
         /\ request.guard = "authorized_reader"
         /\ p[1] = "Reader"
         /\ response = OkPrincipal("Reader", p[2])

\* C2: a configuration in which the same token value occurs more than once
\* (under two user ids of one role, under user ids of different roles, or
\* twice in one array) never yields a registry: construction does not get
\* stuck and never returns Ok, in whatever order the entries are iterated.
C2_DupeTokenFails ==
    DupeTokenInConfig =>
        /\ pc # "serving"
        /\ ~managed.available
        /\ Building => ENABLED BuildStep

\* construction has failed on a token that occurs twice in one array
C2_Witness ==
    /\ pc = "failed"
    /\ error.kind = "dupe in"
    /\ error.dupe = error.user_id
    /\ \E p1, p2 \in TokenPlaces :
         /\ p1 # p2
         /\ p1[1] = p2[1]
         /\ p1[2] = p2[2]
         /\ TokenAt(p1) = TokenAt(p2)

\* C3: a configuration in which some user id is a key of both tables never
\* yields a registry, whatever tokens are listed for it.
C3_DupeUserFails ==
    DupeUserInConfig =>
        /\ pc # "serving"
        /\ ~managed.available
        /\ Building => ENABLED BuildStep

\* construction has failed on a user id of both tables that lists no token
\* in either, in a configuration without any repeated token
C3_Witness ==
    /\ pc = "failed"
    /\ error.kind = "dupe user in"
    /\ error.name = "reader_auth"
    /\ error.dupe = "broadcaster_auth"
    /\ ~DupeTokenInConfig
    /\ WellFormed
    /\ \A p \in TokenPlaces : p[2] # error.user_id

\* a header value read character by character: whether it has a space, what
\* precedes its first space, and what follows it
HasSpace(h) == \E i \in 1..Len(h) : h[i] = " "
LeadingLength(h) ==
    Cardinality({i \in 1..Len(h) : \A j \in 1..i : h[j] # " "})
SchemeOf(h) == SubSeq(h, 1, LeadingLength(h))
RestOf(h) == SubSeq(h, LeadingLength(h) + 2, Len(h))

\* the word "bearer" in any mix of upper and lower case
IsBearerWord(w) ==
    /\ Len(w) = 6
    /\ w[1] \in {"b", "B"}
    /\ w[2] \in {"e", "E"}
    /\ w[3] \in {"a", "A"}
    /\ w[4] \in {"r", "R"}
    /\ w[5] \in {"e", "E"}
    /\ w[6] \in {"r", "R"}

\* the identity the managed registry gives the request being handled
Identity == authenticated_user(managed, request.headers)

\* C4: for an authenticated identity (u, role) and a requested namespace n,
\* authorized_broadcaster answers with the Broadcaster principal of u exactly
\* when role is Broadcaster and u = n, and with Unauthorized otherwise; so a
\* broadcaster principal is only ever granted for the namespace that is the
\* user id under which the configuration lists the presented token.
C4_BroadcasterOwnNamespaceOnly ==
    (request.guard = "authorized_broadcaster" /\ Identity.ok /\ request.param.ok) =>
        /\ response.ok <=>
             (Identity.group = "Broadcaster" /\ Identity.id = request.param.v)
        /\ response.ok => response = OkPrincipal("Broadcaster", Identity.id)
        /\ ~response.ok => response = ErrPrincipal("Unauthorized")
        /\ response.ok =>
             \E p \in TokenPlaces :
               /\ p[1] = "Broadcaster"
               /\ p[2] = request.param.v
               /\ p[2] = response.id
               /\ TokenAt(p) = RestOf(request.headers.v)

\* a broadcaster has asked for the namespace of another configured
\* broadcaster and has been refused
C4_Witness ==
    /\ request.guard = "authorized_broadcaster"
    /\ Identity.ok
    /\ Identity.group = "Broadcaster"
    /\ request.param.ok
    /\ request.param.v # Identity.id
    /\ request.param.v \in ConfigUsers("Broadcaster")
    /\ response = ErrPrincipal("Unauthorized")

\* C5: for an authenticated identity (u, role), authorized_reader answers
\* with the Reader principal of u exactly when role is Reader, whatever the
\* request's path is, and with Unauthorized when role is Broadcaster.
C5_ReaderAnyNamespace ==
    (request.guard = "authorized_reader" /\ Identity.ok) =>
        /\ response.ok <=> Identity.group = "Reader"
        /\ response.ok => response = OkPrincipal("Reader", Identity.id)
        /\ Identity.group = "Broadcaster" => response = ErrPrincipal("Unauthorized")

\* a reader has been authorized on a request for a broadcaster's namespace
C5_Witness ==
    /\ request.guard = "authorized_reader"
    /\ Identity.ok
    /\ Identity.group = "Reader"
    /\ request.param.ok
    /\ request.param.v \in ConfigUsers("Broadcaster")
    /\ response = OkPrincipal("Reader", Identity.id)

\* C6: whatever the registry holds, a request without Authorization header
\* fails with MissingAuth, and a request whose header has no space, or whose
\* part before the first space is not "bearer" in some letter case, fails
\* with InvalidAuth.
C6_MissingOrMalformedHeader ==
    request.guard # "none" =>
        /\ ~request.headers.some => response = ErrPrincipal("MissingAuth")
        /\ (/\ request.headers.some
            /\ \/ ~HasSpace(request.headers.v)
               \/ ~IsBearerWord(SchemeOf(request.headers.v)))
           => response = ErrPrincipal("InvalidAuth")

\* a request presenting a registered token under the scheme Basic has been
\* rejected
C6_Witness ==
    /\ request.guard # "none"
    /\ request.headers.some
    /\ HasSpace(request.headers.v)
    /\ SchemeOf(request.headers.v) = <<"B", "a", "s", "i", "c">>
    /\ RestOf(request.headers.v) \in DOMAIN managed.users
    /\ response = ErrPrincipal("InvalidAuth")

\* C7: the scheme is matched in any letter case and the token exactly: for
\* a registered token t the headers "Bearer t", "bearer t" and "BEARER t"
\* all give the user and group of t, and a header with a bearer scheme whose
\* part after the first space is no key of the registry fails with
\* InvalidAuth.
C7_SchemeAnyCaseTokenExact ==
    /\ (pc = "serving" /\ request = NoRequest) =>
         \A t \in DOMAIN managed.users : \A s \in {Bearer, bearer, BEARER} :
           BearerTokenAuthenticator_authenticated_user(managed, Header(s, t))
             = OkUser(managed.users[t], managed.groups[managed.users[t]])
    /\ (/\ request.guard # "none"
        /\ request.headers.some
        /\ HasSpace(request.headers.v)
        /\ IsBearerWord(SchemeOf(request.headers.v)))
       => IF RestOf(request.headers.v) \in DOMAIN managed.users
          THEN response.err \notin {"InvalidAuth", "MissingAuth"}
          ELSE response = ErrPrincipal("InvalidAuth")

\* with "q" registered and "Q" not, a request bearing "q " (the registered
\* token and one more character) has been rejected
C7_Witness ==
    /\ request.guard # "none"
    /\ <<"q">> \in DOMAIN managed.users
    /\ <<"Q">> \notin DOMAIN managed.users
    /\ request.headers = Header(BEARER, <<"q", " ">>)
    /\ response = ErrPrincipal("InvalidAuth")

\* C8: construction is all-or-nothing.  While from_config runs and after it
\* has failed there is no registry, whatever was inserted before the
\* failure, and a failure is final; a registry is only there once
\* from_config has returned Ok, and then both tables were present and
\* well-formed and it holds every user id and every token of both.
C8_AllOrNothing ==
    /\ Building => ~managed.available
    /\ pc = "failed" =>
         /\ ~managed.available
         /\ error # NoError
         /\ ~ENABLED Next
    /\ managed.available =>
         /\ pc = "serving"
         /\ error = NoError
         /\ todo = <<>>
         /\ WellFormed
         /\ managed = Managed(authenticator)
         /\ DOMAIN managed.groups = ConfigUsers("Broadcaster") \cup ConfigUsers("Reader")
         /\ DOMAIN managed.users = {TokenAt(p) : p \in TokenPlaces}

\* construction has failed in the second table after a user id and a token
\* of the first one were inserted, and no registry is there
C8_Witness ==
    /\ pc = "failed"
    /\ error.name = "reader_auth"
    /\ DOMAIN authenticator.users # {}
    /\ DOMAIN authenticator.groups # {}
    /\ ~managed.available

\* C9: at every step of the construction and in the registry it returns,
\* each token maps to a user id that has a group; so no header makes the
\* returned registry answer InternalError (every header is tried on every
\* returned registry before its first request, and every response is looked
\* at).
C9_TokensHaveGroups ==
    /\ \A t \in DOMAIN authenticator.users :
         authenticator.users[t] \in DOMAIN authenticator.groups
    /\ \A t \in DOMAIN managed.users :
         managed.users[t] \in DOMAIN managed.groups
    /\ (pc = "serving" /\ request = NoRequest) =>
         \A h \in Headers : authenticated_user(managed, h).err # "InternalError"
    /\ response.err # "InternalError"

\* a registry with tokens of two user ids has authenticated a request
C9_Witness ==
    /\ pc = "serving"
    /\ Cardinality({managed.users[t] : t \in DOMAIN managed.users}) >= 2
    /\ request.guard # "none"
    /\ Identity.ok
    /\ response.err \in {"none", "Unauthorized"}

\* the registry a configuration stands for: each token under the user id that
\* lists it, each user id under the group of its table
ExpectedUsers ==
    [t \in {TokenAt(p) : p \in TokenPlaces} |->
        (CHOOSE p \in TokenPlaces : TokenAt(p) = t)[2]]
ExpectedGroups ==
    [u \in ConfigUsers("Broadcaster") \cup ConfigUsers("Reader") |->
        IF u \in ConfigUsers("Broadcaster") THEN "Broadcaster" ELSE "Reader"]

\* C10: the outcome of the construction is decided by the configuration
\* alone: with the groups loaded in either order and the entries of a table
\* in any order, it runs to its end, fails exactly when the configuration is
\* not well-formed with distinct user ids and tokens, and otherwise returns
\* the one registry the configuration stands for.
C10_OrderIndependent ==
    /\ Building => ENABLED BuildStep
    /\ pc = "failed" => ~AllDistinct
    /\ pc = "serving" =>
         /\ AllDistinct
         /\ managed.users = ExpectedUsers
         /\ managed.groups = ExpectedGroups

\* with Reader loaded first, construction has failed on a user id of both
\* tables: the error names the broadcaster entry as the duplicate
C10_Witness ==
    /\ pc = "failed"
    /\ error.kind = "dupe user in"
    /\ error.name = "broadcaster_auth"
    /\ error.dupe = "reader_auth"

====
